---- MODULE Spec2Model ----
(***************************************************************************)
(* Model of src/App.tsx: the React component App of the facial golden      *)
(* ratio calculator.  The state is the component's useState cells and the  *)
(* DOM objects its refs point at; every action is one event-loop task: a   *)
(* user event handler, or the continuation of one awaited promise, run     *)
(* together with the re-render and the effects it causes.                  *)
(*                                                                         *)
(* Nullable strings (error, loading, exception messages) are sequences of  *)
(* tokens, NULL being the empty sequence.  JavaScript numbers are exact    *)
(* rationals <<n, d>> extended with <<1,0>> = Infinity, <<-1,0>> =         *)
(* -Infinity and <<0,0>> = NaN.                                            *)
(***************************************************************************)
EXTENDS Integers, Sequences, FiniteSets, TLC

\* ---------------------------------------------------------------- bounds
MaxRuns == 1      \* analyzeImage invocations with a promise still to settle
MaxFaces == 2     \* largest allFaces.length the detector returns

\* ------------------------------------------------------------- constants
ANALYSIS_TIMEOUT == 15000

NULL == <<>>

\* the data URLs FileReader.readAsDataURL yields for the files the user
\* picks
FileImages == {<<"data:image/png;base64,A">>}

\* the data URL canvas.toDataURL yields for a captured frame
CaptureImage == <<"data:image/jpeg;base64,F">>

\* ------------------------------------------------------ number arithmetic
Sign(n) == IF n > 0 THEN 1 ELSE IF n < 0 THEN -1 ELSE 0

AbsInt(n) == IF n < 0 THEN -n ELSE n

RECURSIVE Gcd(_, _)
Gcd(a, b) == IF b = 0 THEN a ELSE Gcd(b, a % b)

\* the number n/d in lowest terms; d = 0 gives Infinity, -Infinity or NaN
Norm(n, d) ==
  IF d = 0 THEN <<Sign(n), 0>>
  ELSE LET g == Gcd(AbsInt(n), d) IN <<n \div g, d \div g>>

Num(k) == <<k, 1>>

NaN == <<0, 0>>

Infinity == <<1, 0>>

IsFinite(a) == a[2] # 0

NumAdd(a, b) ==
  IF a[2] = 0 /\ b[2] = 0 THEN (IF a[1] = b[1] THEN a ELSE NaN)
  ELSE IF a[2] = 0 THEN a
  ELSE IF b[2] = 0 THEN b
  ELSE LET l == (a[2] \div Gcd(a[2], b[2])) * b[2]
       IN Norm(a[1] * (l \div a[2]) + b[1] * (l \div b[2]), l)

NumNeg(a) == <<0 - a[1], a[2]>>

NumSub(a, b) == NumAdd(a, NumNeg(b))

NumAbs(a) == <<AbsInt(a[1]), a[2]>>

NumDiv(a, b) ==
  IF a = NaN \/ b = NaN THEN NaN
  ELSE LET s == IF b[1] < 0 THEN -1 ELSE 1
       IN Norm(s * a[1] * b[2], a[2] * AbsInt(b[1]))

GOLDEN_RATIO == Norm(1618, 1000)

\* Math.sqrt on the squared distances of the landmark sets below, all of
\* which are perfect squares
RECURSIVE SqrtSearch(_, _, _)
SqrtSearch(n, lo, hi) ==
  IF lo >= hi THEN lo
  ELSE LET mid == (lo + hi + 1) \div 2
       IN IF mid * mid <= n THEN SqrtSearch(n, mid, hi)
          ELSE SqrtSearch(n, lo, mid - 1)

Sqrt(n) == SqrtSearch(n, 0, IF n < 46340 THEN n ELSE 46340)

Pow2(x) == x * x

calculateDistance(p1, p2) ==
  Sqrt(Pow2(p1[1] - p2[1]) + Pow2(p1[2] - p2[2]))

\* --------------------------------------------------------- landmark sets
\* the indices of landmarks.positions that analyzeImage reads
LandmarkIdx == {0, 8, 16, 27, 30, 31, 33, 35, 51, 57}

\* positions of a face whose jaw is w wide, chin-bridge h, nose nl long and
\* nw wide, lip-chin mc, nose-lip nm (all anchors axis-aligned)
Face(w, h, nl, nw, mc, nm) ==
  [i \in LandmarkIdx |->
     CASE i = 0 -> <<0, 100>>
       [] i = 16 -> <<w, 100>>
       [] i = 27 -> <<100, 0>>
       [] i = 8 -> <<100, h>>
       [] i = 30 -> <<100, nl>>
       [] i = 31 -> <<90, nl>>
       [] i = 35 -> <<90 + nw, nl>>
       [] i = 57 -> <<100, h - mc>>
       [] i = 33 -> <<100, nl + 5>>
       [] i = 51 -> <<100, nl + 5 + nm>>]

\* a face whose jaw end points are joined by a 3-4-5 diagonal, four times
\* as high as wide
TiltedFace ==
  [Face(0, 20, 3, 2, 2, 1) EXCEPT ![0] = <<0, 0>>, ![16] = <<3, 4>>]

\* the landmark sets the detector can return: the example of the
\* documentation, a face of golden proportions, the tilted face, a face
\* with jaw[0] = jaw[16], a face with positions[31] = positions[35] and
\* positions[33] = positions[51] = positions[57] = positions[8]
LandmarkSets ==
  { Face(200, 80, 30, 20, 20, 10),
    Face(1000, 1618, 809, 500, 809, 500),
    TiltedFace,
    Face(0, 80, 30, 20, 20, 10),
    [Face(200, 80, 30, 0, 0, 0) EXCEPT ![33] = <<100, 80>>,
                                       ![51] = <<100, 80>>] }

\* the faces the ratios and the score are computed for one by one: every
\* combination of a few jaws (two level ones and a slanted one 500 long),
\* heights and nose and lip measures, among them ratios of 0, of 1.618, of
\* 3.236 and above
MeasuredFaces ==
  { [Face(0, h, nl, nw, m[1], m[2]) EXCEPT ![16] = jaw16] :
      jaw16 \in {<<200, 100>>, <<1000, 100>>, <<300, 500>>},
      h \in {80, 1618, 3236, 4000},
      nl \in {0, 30, 809}, nw \in {20, 500},
      m \in {<<20, 10>>, <<809, 500>>, <<4854, 1000>>} }

getJawOutline(positions) == [i \in {0, 8, 16} |-> positions[i]]

\* -------------------------------------------------------------- messages
LoadingModelsMsg == <<"Loading models...">>

DetectingMsg == <<"Detecting faces...">>

AnalyzingMsg == <<"Analyzing facial structure...">>

ModelLoadFailedMsg == <<"Failed to load models. Please refresh the page.">>

CameraDeniedMsg == <<"Camera access denied. Please allow camera permissions.">>

NoFaceMsg == <<"No face detected. The photo might be too dark, or the face isn't clearly visible.">>

MultipleFacesMsg_index(n) ==
  <<"Multiple faces detected (", ToString(n - 1),
    "). Please ensure only one person is in the photo for accurate analysis.">>

MultipleFacesMsg(n) ==
  <<"Multiple faces detected (", ToString(n),
    "). Please ensure only one person is in the photo for accurate analysis.">>

LandmarksNotFoundMsg == <<"Face detected, but landmarks could not be found. Please ensure nothing is blocking the face (mask, hand, etc.) and lighting is good.">>

TimeoutMsg == <<"Analysis took too long. Please try again with a smaller or clearer photo.">>

GenericMsg == <<"Could not analyze the image. Please ensure the face is clearly visible and facing forward.">>

\* the message of the Error the timeout promise rejects with, word by word
TimeoutErrorMessage ==
  <<"Analysis", "timed", "out", "after",
    ToString(ANALYSIS_TIMEOUT \div 1000), "seconds.">>

\* messages of the exceptions the detector can throw
DetectorErrorMessages ==
  { <<"Failed", "to", "execute", "texImage2D">>,
    <<"fetch", "timed", "out">> }

\* String.prototype.includes on word sequences
Includes(msg, part) ==
  \E i \in 1..(Len(msg) - Len(part) + 1) :
    \A j \in 1..Len(part) : msg[i + j - 1] = part[j]

\* ----------------------------------------------------------------- state
VARIABLES
  modelsLoaded,    \* useState: the models were loaded
  mode,            \* useState: "select", "camera" or "upload"
  imageSrc,        \* useState: NULL or the data URL of the image
  results,         \* useState: NULL or <<the results object>>
  error,           \* useState: NULL or the message
  loading,         \* useState: NULL or the message
  loadModelsPc,    \* "pending" until the Promise.all of loadModels settles
  requestPending,  \* some getUserMedia request has not settled
  srcObject,       \* videoRef.current.srcObject is a stream (its tracks
                   \* are running)
  leaked,          \* some stream with running tracks is referenced by no
                   \* mounted <video>
  dialogOpen,      \* the file chooser opened by handleFileClick is showing
  readers,         \* the files some FileReader is still reading
  imgOnload,       \* imageRef.current.onload is the analyzeImage caller
  imgLoadPending,  \* the load event of the <img> is still to fire
  complete,        \* imageRef.current.complete
  runs,            \* the analyzeImage invocations that are under way
  settled          \* the promise settlement the last step delivered

vars ==
  <<modelsLoaded, mode, imageSrc, results, error, loading, loadModelsPc,
    requestPending, srcObject, leaked, dialogOpen, readers, imgOnload,
    imgLoadPending, complete, runs, settled>>

Runs == 1..MaxRuns

\* a slot of runs that holds no invocation.  pc: "idle", "coarse" (awaiting
\* detectAllFaces), "race" (awaiting Promise.race) or "done" (returned, a
\* promise of its race still to settle); image: the image it was started
\* on; lm: the landmark promise, "none" (not created), "pending" or
\* "settled"; timer: the setTimeout, "none", "armed" or "fired"
IdleRun == [pc |-> "idle", image |-> NULL, lm |-> "none", timer |-> "none"]

\* an invocation that has returned holds its image no longer, and with no
\* promise left to settle it is over: its slot is free again
Retire(run) ==
  IF run.pc # "done" THEN run
  ELSE IF run.lm # "pending" /\ run.timer # "armed" THEN IdleRun
  ELSE [run EXCEPT !.image = NULL]

\* the step delivered no settlement to analyzeImage
NoSettlement ==
  [op |-> "none", outcome |-> "none", faces |-> -1, late |-> FALSE]

\* the step delivered to run r the settlement of op ("detectAllFaces",
\* "detectSingleFace" or "timeout") with the outcome ("faces", "detection",
\* "absent" or "error") for n faces; late: Promise.race had settled before
\* and the settlement was ignored, whatever its outcome
Settlement(op, r, outcome, n) ==
  IF runs[r].pc = "done"
  THEN [op |-> op, outcome |-> "ignored", faces |-> -1, late |-> TRUE]
  ELSE [op |-> op, outcome |-> outcome, faces |-> n, late |-> FALSE]

\* the part of the state that handlers and the re-render work on
Cur ==
  [mode |-> mode, imageSrc |-> imageSrc, results |-> results,
   error |-> error, loading |-> loading,
   requestPending |-> requestPending, srcObject |-> srcObject,
   leaked |-> leaked, imgOnload |-> imgOnload,
   imgLoadPending |-> imgLoadPending, complete |-> complete,
   runs |-> runs, overflow |-> FALSE]

Commit(s) ==
  /\ ~s.overflow
  /\ mode' = s.mode
  /\ imageSrc' = s.imageSrc
  /\ results' = s.results
  /\ error' = s.error
  /\ loading' = s.loading
  /\ requestPending' = s.requestPending
  /\ srcObject' = s.srcObject
  /\ leaked' = s.leaked
  /\ imgOnload' = s.imgOnload
  /\ imgLoadPending' = s.imgLoadPending
  /\ complete' = s.complete
  /\ runs' = [r \in Runs |-> Retire(s.runs[r])]

\* ------------------------------------------------------------- rendering
\* videoRef.current is set: the <video> is rendered
VideoRef(s) == s.mode = "camera"

\* imageRef.current is set: the <img> is rendered
ImageRef(s) == s.mode = "upload" /\ s.imageSrc # NULL

SelectShown_ungated == mode = "select"

\* the mode buttons are rendered
SelectShown == loading = NULL /\ mode = "select"

\* Capture and Cancel are rendered
CameraShown == mode = "camera"

\* PhotoGuidelines and "Cancel and go back" are rendered
GuidelinesShown == mode = "upload" /\ imageSrc = NULL /\ loading = NULL

\* "Analyze Another" is rendered
ResultsShown == mode = "upload" /\ imageSrc # NULL /\ results # NULL

\* "Try Another Photo" and "Go Home" are rendered
ErrorShown ==
  mode = "upload" /\ imageSrc # NULL /\ results = NULL /\ error # NULL

\* ---------------------------------------------------------- analyzeImage
\* lines 208-240: the three ratios, the scores and the results object
Closeness_clamped(value) ==
  LET c == NumSub(Num(1),
                  NumDiv(NumAbs(NumSub(value, GOLDEN_RATIO)), GOLDEN_RATIO))
  IN IF c[1] < 0 THEN Num(0) ELSE c

Closeness(value) ==
  NumSub(Num(1), NumDiv(NumAbs(NumSub(value, GOLDEN_RATIO)), GOLDEN_RATIO))

RECURSIVE Reduce(_, _)
Reduce(scores, acc) ==
  IF scores = <<>> THEN acc
  ELSE Reduce(Tail(scores), NumAdd(acc, Head(scores)))

calculatedRatios_inverted(positions) ==
  LET jaw == getJawOutline(positions)
      faceWidth == calculateDistance(jaw[0], jaw[16])
      faceHeight == calculateDistance(positions[8], positions[27])
      noseLength == calculateDistance(positions[27], positions[30])
      noseWidth == calculateDistance(positions[31], positions[35])
      mouthToChin == calculateDistance(positions[57], positions[8])
      noseToMouth == calculateDistance(positions[33], positions[51])
  IN << [name |-> "Face Shape (H/W)",
         value |-> NumDiv(Num(faceWidth), Num(faceHeight))],
        [name |-> "Nose Proportions (L/W)",
         value |-> NumDiv(Num(noseLength), Num(noseWidth))],
        [name |-> "Lip-Chin / Nose-Lip",
         value |-> NumDiv(Num(mouthToChin), Num(noseToMouth))] >>

calculatedRatios(positions) ==
  LET jaw == getJawOutline(positions)
      faceWidth == calculateDistance(jaw[0], jaw[16])
      faceHeight == calculateDistance(positions[8], positions[27])
      noseLength == calculateDistance(positions[27], positions[30])
      noseWidth == calculateDistance(positions[31], positions[35])
      mouthToChin == calculateDistance(positions[57], positions[8])
      noseToMouth == calculateDistance(positions[33], positions[51])
  IN << [name |-> "Face Shape (H/W)",
         value |-> NumDiv(Num(faceHeight), Num(faceWidth))],
        [name |-> "Nose Proportions (L/W)",
         value |-> NumDiv(Num(noseLength), Num(noseWidth))],
        [name |-> "Lip-Chin / Nose-Lip",
         value |-> NumDiv(Num(mouthToChin), Num(noseToMouth))] >>

totalScore(ratios) ==
  LET scores == [i \in 1..Len(ratios) |-> Closeness(ratios[i].value)]
  IN NumDiv(Reduce(scores, Num(0)), Num(Len(scores)))

ResultsOf(positions) ==
  LET ratios == calculatedRatios(positions)
  IN <<[landmarks |-> positions, ratios |-> ratios,
        score |-> totalScore(ratios)]>>

\* the results object of each landmark set
ResultsTable ==
  [positions \in LandmarkSets \cup MeasuredFaces |-> ResultsOf(positions)]

analyzeImage_noClear(s) ==
  IF ~ImageRef(s) THEN s
  ELSE IF \A r \in Runs : s.runs[r].pc # "idle"
  THEN [s EXCEPT !.overflow = TRUE]
  ELSE LET r == CHOOSE q \in Runs :
                  /\ s.runs[q].pc = "idle"
                  /\ \A p \in 1..(q - 1) : s.runs[p].pc # "idle"
       IN [s EXCEPT !.loading = DetectingMsg,
                    !.runs[r] = [IdleRun EXCEPT !.pc = "coarse",
                                                !.image = s.imageSrc]]

\* lines 157-162: the entry of analyzeImage; the invocation takes the first
\* free slot of runs
analyzeImage(s) ==
  IF ~ImageRef(s) THEN s
  ELSE IF \A r \in Runs : s.runs[r].pc # "idle"
  THEN [s EXCEPT !.overflow = TRUE]
  ELSE LET r == CHOOSE q \in Runs :
                  /\ s.runs[q].pc = "idle"
                  /\ \A p \in 1..(q - 1) : s.runs[p].pc # "idle"
       IN [s EXCEPT !.loading = DetectingMsg,
                    !.error = NULL,
                    !.results = NULL,
                    !.runs[r] = [IdleRun EXCEPT !.pc = "coarse",
                                                !.image = s.imageSrc]]

catchMessage_generic(e) == GenericMsg

\* lines 242-251: catch and finally
catchMessage(e) ==
  IF Includes(e, <<"timed", "out">>) THEN TimeoutMsg ELSE GenericMsg

catchFinally(s, r, e) ==
  [s EXCEPT !.error = catchMessage(e),
            !.loading = NULL,
            !.runs[r].pc = "done"]

afterDetectAllFaces_noZeroCheck(s, r, n) ==
  IF n > 1
  THEN [s EXCEPT !.error = MultipleFacesMsg(n),
                 !.loading = NULL,
                 !.runs[r].pc = "done"]
  ELSE [s EXCEPT !.loading = AnalyzingMsg,
                 !.runs[r].lm = "pending",
                 !.runs[r].timer = "armed",
                 !.runs[r].pc = "race"]

\* lines 168-188: what follows the await of detectAllFaces, which returned
\* n faces
afterDetectAllFaces(s, r, n) ==
  IF n = 0
  THEN [s EXCEPT !.error = NoFaceMsg,
                 !.loading = NULL,
                 !.runs[r].pc = "done"]
  ELSE IF n > 1
  THEN [s EXCEPT !.error = MultipleFacesMsg(n),
                 !.loading = NULL,
                 !.runs[r].pc = "done"]
  ELSE [s EXCEPT !.loading = AnalyzingMsg,
                 !.runs[r].lm = "pending",
                 !.runs[r].timer = "armed",
                 !.runs[r].pc = "race"]

afterRace_noCheck(s, r, detection) ==
  IF detection = NULL
  THEN catchFinally(s, r, <<"Cannot", "read", "properties", "of", "undefined">>)
  ELSE [s EXCEPT !.results = ResultsTable[detection[1]],
                 !.loading = NULL,
                 !.runs[r].pc = "done"]

\* lines 202-251: what follows the await of Promise.race, which resolved
\* with detection (NULL, or <<the landmark positions>>)
afterRace(s, r, detection) ==
  IF detection = NULL
  THEN [s EXCEPT !.error = LandmarksNotFoundMsg,
                 !.loading = NULL,
                 !.runs[r].pc = "done"]
  ELSE [s EXCEPT !.results = ResultsTable[detection[1]],
                 !.loading = NULL,
                 !.runs[r].pc = "done"]

raceSettled_never(run) == FALSE

\* Promise.race has settled: a later settlement of either promise is
\* ignored
raceSettled(run) == run.pc # "race"

\* --------------------------------------------------------------- effects
\* lines 107-113, called in a handler of the render ref
stopVideoStream(ref, s) ==
  IF VideoRef(ref) /\ s.srcObject
  THEN [s EXCEPT !.srcObject = FALSE]
  ELSE s

\* the DOM after the re-render from old to s: the stream of an unmounted
\* <video> keeps running with nothing left that refers to it, a mounted or
\* re-sourced <img> starts loading.
\* isComplete: the image is available when the effect runs; queued: its
\* load event is nevertheless still to fire.  On an <img> that stays
\* mounted the load event calls the onload handler an earlier image left,
\* whether it fires before the effect or after it
Render(old, s, isComplete, queued) ==
  LET v == IF VideoRef(s) THEN s
           ELSE [s EXCEPT !.srcObject = FALSE, !.leaked = @ \/ s.srcObject]
  IN IF ~ImageRef(v)
     THEN [v EXCEPT !.imgOnload = FALSE, !.imgLoadPending = FALSE,
                    !.complete = FALSE]
     ELSE IF ~ImageRef(old)
     THEN [v EXCEPT !.imgOnload = FALSE,
                    !.imgLoadPending = ~isComplete \/ queued,
                    !.complete = isComplete]
     ELSE IF v.imageSrc # old.imageSrc
     THEN [v EXCEPT !.imgLoadPending = ~isComplete \/ queued \/ v.imgOnload,
                    !.complete = isComplete]
     ELSE v

\* lines 254-263: the effect on [imageSrc]
imageSrcEffect(old, s) ==
  IF s.imageSrc # old.imageSrc /\ s.imageSrc # NULL /\ ImageRef(s)
  THEN IF s.complete THEN analyzeImage(s)
       ELSE [s EXCEPT !.imgOnload = TRUE]
  ELSE s

\* a state update outside the handlers below, rendered and followed by the
\* effects
Update(old, s, isComplete, queued) ==
  Commit(imageSrcEffect(old, Render(old, s, isComplete, queued)))

\* an update that leaves mode and imageSrc alone
Apply(s) == Update(Cur, s, FALSE, FALSE)

\* ------------------------------------------------------------------ Init
\* the state after the mount effect (lines 78-93) has called loadModels
Init ==
  /\ modelsLoaded = FALSE
  /\ mode = "select"
  /\ imageSrc = NULL
  /\ results = NULL
  /\ error = NULL
  /\ loading = LoadingModelsMsg
  /\ loadModelsPc = "pending"
  /\ requestPending = FALSE
  /\ srcObject = FALSE
  /\ leaked = FALSE
  /\ dialogOpen = FALSE
  /\ readers = {}
  /\ imgOnload = FALSE
  /\ imgLoadPending = FALSE
  /\ complete = FALSE
  /\ runs = [r \in Runs |-> IdleRun]
  /\ settled = NoSettlement

\* --------------------------------------------------------------- actions
\* lines 82-86, 90: both loadFromUri calls resolved
loadModelsResolve ==
  /\ loadModelsPc = "pending"
  /\ loadModelsPc' = "done"
  /\ modelsLoaded' = TRUE
  /\ Apply([Cur EXCEPT !.loading = NULL])
  /\ settled' = NoSettlement
  /\ UNCHANGED <<dialogOpen, readers>>

\* lines 87-90: one of the loadFromUri calls rejected
loadModelsReject ==
  /\ loadModelsPc = "pending"
  /\ loadModelsPc' = "done"
  /\ Apply([Cur EXCEPT !.error = ModelLoadFailedMsg, !.loading = NULL])
  /\ settled' = NoSettlement
  /\ UNCHANGED <<modelsLoaded, dialogOpen, readers>>

\* lines 115-127, with the getUserMedia call of startVideoStream
handleModeSelect(selectedMode) ==
  /\ SelectShown
  /\ ~dialogOpen
  /\ LET cleared == [Cur EXCEPT !.error = NULL,
                                !.results = NULL,
                                !.imageSrc = NULL]
     IN IF selectedMode = "camera"
        THEN Update(Cur, [cleared EXCEPT !.mode = "camera",
                                         !.requestPending = TRUE],
                    FALSE, FALSE)
        ELSE Update(Cur, [stopVideoStream(Cur, cleared)
                            EXCEPT !.mode = "upload"],
                    FALSE, FALSE)
  /\ settled' = NoSettlement
  /\ UNCHANGED <<modelsLoaded, loadModelsPc, dialogOpen, readers>>

\* lines 97-100: getUserMedia resolved with a stream; more: other requests
\* are still pending.  The stream a <video> referred to before keeps
\* running
startVideoStreamResolve(more) ==
  /\ requestPending
  /\ Apply(IF VideoRef(Cur)
           THEN [Cur EXCEPT !.requestPending = more,
                            !.leaked = @ \/ srcObject,
                            !.srcObject = TRUE]
           ELSE [Cur EXCEPT !.requestPending = more,
                            !.leaked = TRUE])
  /\ settled' = NoSettlement
  /\ UNCHANGED <<modelsLoaded, loadModelsPc, dialogOpen, readers>>

\* lines 101-104: getUserMedia rejected; more: other requests are still
\* pending
startVideoStreamReject(more) ==
  /\ requestPending
  /\ Update(Cur, [Cur EXCEPT !.requestPending = more,
                             !.error = CameraDeniedMsg,
                             !.mode = "select"],
            FALSE, FALSE)
  /\ settled' = NoSettlement
  /\ UNCHANGED <<modelsLoaded, loadModelsPc, dialogOpen, readers>>

\* lines 129-131: the click on the file input opens the file chooser
handleFileClick ==
  /\ GuidelinesShown
  /\ ~dialogOpen
  /\ dialogOpen' = TRUE
  /\ Apply(Cur)
  /\ settled' = NoSettlement
  /\ UNCHANGED <<modelsLoaded, loadModelsPc, readers>>

\* the file chooser is dismissed: no change event
fileDialogCancel ==
  /\ dialogOpen
  /\ dialogOpen' = FALSE
  /\ Apply(Cur)
  /\ settled' = NoSettlement
  /\ UNCHANGED <<modelsLoaded, loadModelsPc, readers>>

\* lines 133-142: the change event of the file input, a file was chosen
handleFileChange(file) ==
  /\ dialogOpen
  /\ dialogOpen' = FALSE
  /\ readers' = readers \cup {file}
  /\ Apply(Cur)
  /\ settled' = NoSettlement
  /\ UNCHANGED <<modelsLoaded, loadModelsPc>>

\* lines 137-139: reader.onload; more: other FileReaders are still reading
\* the same file
readerOnload(file, more, isComplete, queued) ==
  /\ file \in readers
  /\ readers' = IF more THEN readers ELSE readers \ {file}
  /\ Update(Cur, [Cur EXCEPT !.imageSrc = file], isComplete, queued)
  /\ settled' = NoSettlement
  /\ UNCHANGED <<modelsLoaded, loadModelsPc, dialogOpen>>

\* line 140: readAsDataURL failed, the reader has no onerror handler
readerError(file) ==
  /\ file \in readers
  /\ readers' = readers \ {file}
  /\ Apply(Cur)
  /\ settled' = NoSettlement
  /\ UNCHANGED <<modelsLoaded, loadModelsPc, dialogOpen>>

\* lines 144-155
handleCapture(isComplete, queued) ==
  /\ CameraShown
  /\ ~dialogOpen
  /\ Update(Cur, [stopVideoStream(Cur, [Cur EXCEPT !.imageSrc = CaptureImage])
                    EXCEPT !.mode = "upload"],
            isComplete, queued)
  /\ settled' = NoSettlement
  /\ UNCHANGED <<modelsLoaded, loadModelsPc, dialogOpen, readers>>

\* line 260: the load event of the <img>
imageOnload ==
  /\ imgLoadPending
  /\ Commit(IF imgOnload
            THEN analyzeImage([Cur EXCEPT !.imgLoadPending = FALSE,
                                          !.complete = TRUE])
            ELSE [Cur EXCEPT !.imgLoadPending = FALSE,
                             !.complete = TRUE])
  /\ settled' = NoSettlement
  /\ UNCHANGED <<modelsLoaded, loadModelsPc, dialogOpen, readers>>

\* line 168: detectAllFaces resolved with n faces
detectAllFacesResolve(r, n) ==
  /\ runs[r].pc = "coarse"
  /\ Apply(afterDetectAllFaces(Cur, r, n))
  /\ settled' = Settlement("detectAllFaces", r, "faces", n)
  /\ UNCHANGED <<modelsLoaded, loadModelsPc, dialogOpen, readers>>

\* line 168: detectAllFaces rejected with an Error of message e
detectAllFacesReject(r, e) ==
  /\ runs[r].pc = "coarse"
  /\ Apply(catchFinally(Cur, r, e))
  /\ settled' = Settlement("detectAllFaces", r, "error", -1)
  /\ UNCHANGED <<modelsLoaded, loadModelsPc, dialogOpen, readers>>

\* lines 185-188, 197: the landmark promise resolved with detection
detectSingleFaceResolve(r, detection) ==
  /\ runs[r].lm = "pending"
  /\ Apply(IF raceSettled(runs[r])
           THEN [Cur EXCEPT !.runs[r].lm = "settled"]
           ELSE afterRace([Cur EXCEPT !.runs[r].lm = "settled"], r,
                          detection))
  /\ settled' = Settlement("detectSingleFace", r,
                           IF detection = NULL THEN "absent"
                           ELSE "detection", 1)
  /\ UNCHANGED <<modelsLoaded, loadModelsPc, dialogOpen, readers>>

\* lines 185-188, 197: the landmark promise rejected
detectSingleFaceReject(r, e) ==
  /\ runs[r].lm = "pending"
  /\ Apply(IF raceSettled(runs[r])
           THEN [Cur EXCEPT !.runs[r].lm = "settled"]
           ELSE catchFinally([Cur EXCEPT !.runs[r].lm = "settled"], r, e))
  /\ settled' = Settlement("detectSingleFace", r, "error", 1)
  /\ UNCHANGED <<modelsLoaded, loadModelsPc, dialogOpen, readers>>

\* lines 190-195: the setTimeout callback rejects the timeout promise
timeoutFires(r) ==
  /\ runs[r].timer = "armed"
  /\ Apply(IF raceSettled(runs[r])
           THEN [Cur EXCEPT !.runs[r].timer = "fired"]
           ELSE catchFinally([Cur EXCEPT !.runs[r].timer = "fired"], r,
                             TimeoutErrorMessage))
  /\ settled' = Settlement("timeout", r, "error", 1)
  /\ UNCHANGED <<modelsLoaded, loadModelsPc, dialogOpen, readers>>

\* lines 304-312
reset ==
  /\ CameraShown \/ GuidelinesShown \/ ResultsShown \/ ErrorShown
  /\ ~dialogOpen
  /\ Update(Cur, [stopVideoStream(Cur, Cur) EXCEPT !.imageSrc = NULL,
                                                   !.results = NULL,
                                                   !.error = NULL,
                                                   !.loading = NULL,
                                                   !.mode = "select"],
            FALSE, FALSE)
  /\ settled' = NoSettlement
  /\ UNCHANGED <<modelsLoaded, loadModelsPc, dialogOpen, readers>>

\* lines 314-321
reUpload ==
  /\ ErrorShown
  /\ ~dialogOpen
  /\ Update(Cur, [Cur EXCEPT !.imageSrc = NULL,
                             !.results = NULL,
                             !.error = NULL,
                             !.loading = NULL],
            FALSE, FALSE)
  /\ settled' = NoSettlement
  /\ UNCHANGED <<modelsLoaded, loadModelsPc, dialogOpen, readers>>

\* what the landmark promise can resolve with
Detections == {NULL} \cup {<<l>> : l \in LandmarkSets}

\* whether the image is complete when the effect runs, and whether its load
\* event is then still queued
LoadStates == {<<FALSE, FALSE>>, <<TRUE, FALSE>>, <<TRUE, TRUE>>}

Next ==
  \/ loadModelsResolve
  \/ loadModelsReject
  \/ \E m \in {"camera", "upload"} : handleModeSelect(m)
  \/ \E more \in BOOLEAN : startVideoStreamResolve(more)
  \/ \E more \in BOOLEAN : startVideoStreamReject(more)
  \/ handleFileClick
  \/ fileDialogCancel
  \/ \E f \in FileImages : handleFileChange(f)
  \/ \E f \in FileImages : \E more \in BOOLEAN : \E l \in LoadStates :
       readerOnload(f, more, l[1], l[2])
  \/ \E f \in FileImages : readerError(f)
  \/ \E l \in LoadStates : handleCapture(l[1], l[2])
  \/ imageOnload
  \/ \E r \in Runs : \E n \in 0..MaxFaces : detectAllFacesResolve(r, n)
  \/ \E r \in Runs : \E e \in DetectorErrorMessages :
       detectAllFacesReject(r, e)
  \/ \E r \in Runs : \E d \in Detections : detectSingleFaceResolve(r, d)
  \/ \E r \in Runs : \E e \in DetectorErrorMessages :
       detectSingleFaceReject(r, e)
  \/ \E r \in Runs : timeoutFires(r)
  \/ reset
  \/ reUpload

Spec == Init /\ [][Next]_vars

\* the ratios and the score on their own: an upload whose run awaits
\* Promise.race, and the landmark promise resolving with each of the
\* measured faces
InitScore ==
  /\ modelsLoaded = TRUE
  /\ mode = "upload"
  /\ imageSrc \in FileImages
  /\ results = NULL
  /\ error = NULL
  /\ loading = AnalyzingMsg
  /\ loadModelsPc = "done"
  /\ requestPending = FALSE
  /\ srcObject = FALSE
  /\ leaked = FALSE
  /\ dialogOpen = FALSE
  /\ readers = {}
  /\ imgOnload = FALSE
  /\ imgLoadPending = FALSE
  /\ complete = TRUE
  /\ runs = [r \in Runs |->
               IF r = 1
               THEN [pc |-> "race", image |-> imageSrc, lm |-> "pending",
                     timer |-> "armed"]
               ELSE IdleRun]
  /\ settled = [op |-> "detectAllFaces", outcome |-> "faces", faces |-> 1,
                late |-> FALSE]

NextScore ==
  \E positions \in MeasuredFaces : detectSingleFaceResolve(1, <<positions>>)

SpecScore == InitScore /\ [][NextScore]_vars

\* ---------------------------------------------------------------- claims
\* the session shows a detection in progress
Detecting == loading \in {DetectingMsg, AnalyzingMsg}

\* the step delivers a settlement to run r, which still awaits it
DeliversTo(r) == runs[r].pc \in {"coarse", "race"} /\ runs'[r] # runs[r]

\* the step delivers the settlement of op to a run that still awaits it
Delivers(op) == settled'.op = op /\ ~settled'.late

\* C1: when an analyzeImage run settles while the loaded image is another
\* one than the image the run was started on, it writes none of results,
\* error and loading.
C1_SupersededRunWritesNothing ==
  [][\A r \in Runs :
       (/\ DeliversTo(r)
        /\ imageSrc # NULL
        /\ imageSrc # runs[r].image)
       => UNCHANGED <<results, error, loading>>]_vars

\* C2: once the timeout has won the race of a run, the settlement of that
\* run's landmark promise changes none of results, error, loading, mode and
\* imageSrc.
C2_LateSettlementIgnored ==
  [][\A r \in Runs :
       (/\ runs[r].pc = "done"
        /\ runs[r].timer = "fired"
        /\ runs[r].lm = "pending"
        /\ runs'[r].lm # "pending")
       => UNCHANGED <<results, error, loading, mode, imageSrc>>]_vars

\* the landmark promise of a timed-out run has settled after a new image
\* was loaded: the timeout left its message in error, and only the actions
\* that clear imageSrc clear error
C2_Witness ==
  /\ settled.op = "detectSingleFace"
  /\ settled.late
  /\ imageSrc # NULL
  /\ error = NULL

\* C3: results and error are never both set, and both are null while a
\* detection is in progress.
C3_ResultXorFailure ==
  /\ ~(results # NULL /\ error # NULL)
  /\ Detecting => (results = NULL /\ error = NULL)

\* C4: when mode is not "camera" and no getUserMedia request is pending, no
\* stream that was acquired has running tracks.
C4_NoTrackLeftRunning ==
  (mode # "camera" /\ ~requestPending) => (~srcObject /\ ~leaked)

\* C5: a run whose detectAllFaces resolves with no face ends there with
\* error the no-face message and loading null, writes no results, and is
\* over without a landmark promise or timer created.
C5_NoFace ==
  [][(Delivers("detectAllFaces") /\ settled'.faces = 0)
     => /\ error' = NoFaceMsg
        /\ results' = results
        /\ loading' = NULL
        /\ \A r \in Runs : DeliversTo(r) => runs'[r] = IdleRun]_vars

\* a run ended with the no-face message
C5_Witness ==
  /\ settled.op = "detectAllFaces"
  /\ settled.faces = 0
  /\ error = NoFaceMsg
  /\ results = NULL
  /\ loading = NULL

\* C6: a run whose detectAllFaces resolves with n > 1 faces ends there with
\* error the multiple-faces message that carries n and loading null, writes
\* no results, and is over without a landmark promise or timer created.
C6_MultipleFaces ==
  [][(Delivers("detectAllFaces") /\ settled'.faces > 1)
     => /\ Len(error') = 3
        /\ error'[1] = "Multiple faces detected ("
        /\ error'[2] = ToString(settled'.faces)
        /\ results' = results
        /\ loading' = NULL
        /\ \A r \in Runs : DeliversTo(r) => runs'[r] = IdleRun]_vars

\* a run ended with the multiple-faces message for two faces
C6_Witness ==
  /\ settled.op = "detectAllFaces"
  /\ settled.faces = 2
  /\ Len(error) = 3
  /\ error[2] = "2"
  /\ results = NULL
  /\ loading = NULL

\* C7: when the timer fires while the run still waits for the race, the
\* landmark promise pending, the run ends with error the timeout message
\* and loading null and writes no results; what settles after the race (the
\* timer or the landmark promise) writes nothing.
C7_TimeoutWins ==
  [][/\ \A r \in Runs :
          (/\ DeliversTo(r)
           /\ runs[r].lm = "pending"
           /\ Delivers("timeout"))
          => /\ error' = TimeoutMsg
             /\ results' = results
             /\ loading' = NULL
             /\ runs'[r].pc = "done"
             /\ runs'[r].lm = "pending"
     /\ settled'.late => UNCHANGED <<results, error, loading>>]_vars

\* a run was ended by its timer, its landmark promise still pending
C7_Witness ==
  /\ settled.op = "timeout"
  /\ ~settled.late
  /\ \E r \in Runs : runs[r].pc = "done" /\ runs[r].lm = "pending"
  /\ error = TimeoutMsg
  /\ results = NULL
  /\ loading = NULL

\* C8: when the landmark promise resolves with no detection before the
\* timer fires, the run ends with error the landmarks-not-found message and
\* loading null and writes no results.
C8_LandmarksNotFound ==
  [][(Delivers("detectSingleFace") /\ settled'.outcome = "absent")
     => /\ error' = LandmarksNotFoundMsg
        /\ results' = results
        /\ loading' = NULL
        /\ \A r \in Runs : DeliversTo(r) => runs'[r].pc = "done"]_vars

\* a run ended with the landmarks-not-found message, its timer still armed
C8_Witness ==
  /\ settled.op = "detectSingleFace"
  /\ settled.outcome = "absent"
  /\ \E r \in Runs : runs[r].pc = "done" /\ runs[r].timer = "armed"
  /\ error = LandmarksNotFoundMsg
  /\ results = NULL
  /\ loading = NULL

\* one of the three denominator anchor pairs has zero distance
Degenerate(positions) ==
  \/ positions[0] = positions[16]
  \/ positions[31] = positions[35]
  \/ positions[33] = positions[51]

\* C9: results never holds the ratios of a landmark set with a collapsed
\* denominator anchor pair, nor a ratio whose value is Infinity or NaN.
C9_NoDegenerateResult ==
  results # NULL =>
    /\ ~Degenerate(results[1].landmarks)
    /\ \A i \in 1..Len(results[1].ratios) :
         IsFinite(results[1].ratios[i].value)

ModelLoadFailed == loadModelsPc = "done" /\ ~modelsLoaded

\* C11: once loadModels has failed, error stays the model-load message and
\* no analyzeImage run calls the detector.
C11_ModelLoadFailureIsFatal ==
  ModelLoadFailed =>
    /\ error = ModelLoadFailedMsg
    /\ \A r \in Runs : runs[r].pc = "idle"

\* C12: when a detector call (detectAllFaces or the landmark promise)
\* rejects while its run awaits it, the run ends with error the generic
\* message and loading null, and writes no results.
C12_DetectorExceptionIsGeneric ==
  [][(/\ settled'.op \in {"detectAllFaces", "detectSingleFace"}
      /\ settled'.outcome = "error")
     => /\ error' = GenericMsg
        /\ results' = results
        /\ loading' = NULL
        /\ \A r \in Runs : DeliversTo(r) => runs'[r].pc \in {"idle", "done"}]_vars

\* "Try Another Photo" (reUpload) is rendered
ReUploadOffered == ErrorShown

\* a button whose handler is reset is rendered
ResetOffered ==
  CameraShown \/ GuidelinesShown \/ ResultsShown \/ ErrorShown

\* C13: whenever error is set, both the reUpload button and a reset button
\* are rendered.
C13_FailureOffersRetryAndReset ==
  error # NULL => (ReUploadOffered /\ ResetOffered)

\* the step starts an analyzeImage run
RunStarts == \E r \in Runs : runs[r].pc = "idle" /\ runs'[r].pc = "coarse"

\* the step sets imageSrc to a new image that the <img> shows
NewImage == imageSrc' # NULL /\ imageSrc' # imageSrc /\ mode' = "upload"

\* the step is the load event of the image the <img> goes on showing
LoadEvent ==
  /\ imgLoadPending /\ ~imgLoadPending'
  /\ imageSrc' = imageSrc /\ mode' = "upload"

\* C14: a new image in mode "upload" leads to exactly one analyzeImage run
\* with no user action: when the <img> is complete the step that sets it
\* starts the run and its load event starts no second one, otherwise the
\* load event is awaited with the analyzeImage caller as its handler and
\* starts the run.
C14_OneRunPerImage ==
  [][/\ NewImage =>
          IF complete'
          THEN RunStarts
          ELSE ~RunStarts /\ imgLoadPending' /\ imgOnload'
     /\ LoadEvent => (RunStarts <=> ~complete)]_vars

\* the golden ratio as the fraction 809/500 and, for a ratio value n/d
\* with d dividing 500, the numerator of its closeness over the common
\* denominator 809 * 500, in integer arithmetic:
\* 1 - |n/d - 809/500| / (809/500) = (809 d - |500 n - 809 d|) / (809 d)
ClosenessOver404500(v) ==
  LET diff == 500 * v[1] - 809 * v[2]
  IN (500 \div v[2]) * (809 * v[2] - (IF diff < 0 THEN 0 - diff ELSE diff))

\* C15: the score stored in results is the mean of the three closeness
\* values 1 - |v - 1.618| / 1.618, negative ones included: three ratios of
\* 1.618 give exactly 1, a ratio of 0 or of 3.236 contributes 0, a ratio
\* above 3.236 a negative amount.
C15_ScoreIsUnclampedMean ==
  results # NULL =>
    LET ratios == results[1].ratios
        k == [i \in 1..3 |-> ClosenessOver404500(ratios[i].value)]
    IN /\ \A i \in 1..3 : 500 % ratios[i].value[2] = 0
       /\ results[1].score = Norm(k[1] + k[2] + k[3], 3 * 404500)
       /\ (\A i \in 1..3 : ratios[i].value = <<809, 500>>)
            => results[1].score = <<1, 1>>
       /\ \A i \in 1..3 :
            /\ ratios[i].value \in {<<0, 1>>, <<809, 250>>} => k[i] = 0
            /\ ratios[i].value[1] * 250 > 809 * ratios[i].value[2]
                 => k[i] < 0

\* the score of a face with ratios 3.236, 0 and 4.854 is stored: the
\* closeness values 0, 0 and -1 give -1/3
C15_Witness ==
  /\ results # NULL
  /\ results[1].ratios[1].value = <<809, 250>>
  /\ results[1].ratios[2].value = <<0, 1>>
  /\ results[1].ratios[3].value = <<2427, 500>>
  /\ results[1].score = <<-1, 3>>

\* the anchors of the three ratios, numerator pair before denominator pair
AnchorPairs ==
  << <<8, 27>>, <<0, 16>> >> :> "Face Shape (H/W)"
  @@ << <<27, 30>>, <<31, 35>> >> :> "Nose Proportions (L/W)"
  @@ << <<57, 8>>, <<33, 51>> >> :> "Lip-Chin / Nose-Lip"

RatioAnchors ==
  << << <<8, 27>>, <<0, 16>> >>,
     << <<27, 30>>, <<31, 35>> >>,
     << <<57, 8>>, <<33, 51>> >> >>

\* none of the six anchor pairs has zero distance
NonDegenerate(positions) ==
  \A i \in 1..3 : \A j \in 1..2 :
    positions[RatioAnchors[i][j][1]] # positions[RatioAnchors[i][j][2]]

\* the distance of an anchor pair, found by search: the k with
\* k * k = dx * dx + dy * dy
PairDistance(positions, pair) ==
  LET dx == positions[pair[1]][1] - positions[pair[2]][1]
      dy == positions[pair[1]][2] - positions[pair[2]][2]
  IN CHOOSE k \in 0..5000 : k * k = dx * dx + dy * dy

\* C16: for a landmark set with no anchor pair of zero distance, results
\* holds exactly three ratios, named "Face Shape (H/W)", "Nose Proportions
\* (L/W)" and "Lip-Chin / Nose-Lip" in this order, each positive and equal
\* to dist(8,27)/dist(0,16), dist(27,30)/dist(31,35) and
\* dist(57,8)/dist(33,51).
C16_ThreeRatiosInOrder ==
  (results # NULL /\ NonDegenerate(results[1].landmarks)) =>
    LET ratios == results[1].ratios
        positions == results[1].landmarks
    IN /\ Len(ratios) = 3
       /\ \A i \in 1..3 :
            /\ ratios[i].name = AnchorPairs[RatioAnchors[i]]
            /\ ratios[i].value[1] > 0
            /\ ratios[i].value[2] > 0
            /\ ratios[i].value[1] * PairDistance(positions, RatioAnchors[i][2])
                 = ratios[i].value[2]
                     * PairDistance(positions, RatioAnchors[i][1])

\* the ratios of the documented example are stored: width 200 and height
\* 80 give a face shape of 0.4
C16_Witness ==
  /\ results # NULL
  /\ results[1].landmarks = Face(200, 80, 30, 20, 20, 10)
  /\ results[1].ratios[1].name = "Face Shape (H/W)"
  /\ results[1].ratios[1].value = <<2, 5>>
  /\ results[1].ratios[2].value = <<3, 2>>
  /\ results[1].ratios[3].value = <<2, 1>>

\* C17: the step in which analyzeImage calls the detector for an image
\* leaves results and error null and loading 'Detecting faces...', whatever
\* an earlier image left in them.
C17_DetectionStartsCleared ==
  [][RunStarts =>
       /\ results' = NULL
       /\ error' = NULL
       /\ loading' = DetectingMsg]_vars

\* the detector was called for an image that replaced an earlier one on
\* the same <img> (the onload handler of the earlier image is still set
\* while the load event of the complete new image is to come)
C17_Witness ==
  /\ imgOnload /\ complete /\ imgLoadPending
  /\ \E r \in Runs : runs[r].pc = "coarse" /\ runs[r].image = imageSrc
  /\ results = NULL
  /\ error = NULL
  /\ loading = DetectingMsg

\* C18: a reset step ends in mode "select" with imageSrc, results, error
\* and loading null and no camera stream running; a reUpload step ends with
\* imageSrc, results, error and loading null and mode still "upload".
C18_ResetAndReUploadFrame ==
  [][/\ reset =>
          /\ mode' = "select"
          /\ imageSrc' = NULL
          /\ results' = NULL
          /\ error' = NULL
          /\ loading' = NULL
          /\ ~srcObject'
          /\ ~leaked'
     /\ reUpload =>
          /\ imageSrc' = NULL
          /\ results' = NULL
          /\ error' = NULL
          /\ loading' = NULL
          /\ mode = "upload"
          /\ mode' = "upload"]_vars

\* C19: a run that awaits a detector call ends even if the call never
\* settles: its timer is armed, or else a reset or reUpload button is
\* rendered for the user to leave.
C19_RunEndsWithoutDetector ==
  \A r \in Runs :
    runs[r].pc \in {"coarse", "race"} =>
      \/ runs[r].timer = "armed"
      \/ ResetOffered
      \/ ReUploadOffered

\* the step settles a getUserMedia request
StreamRequestSettles ==
  \E more \in BOOLEAN :
    startVideoStreamResolve(more) \/ startVideoStreamReject(more)

\* C20: a getUserMedia request that settles when mode is no longer
\* "camera" changes none of mode, error, imageSrc, results and loading, and
\* leaves the <img> and its pending load event in place.
C20_LateStreamRequestIsInert ==
  [][(StreamRequestSettles /\ mode # "camera")
     => UNCHANGED <<mode, error, imageSrc, results, loading, imgOnload,
                    imgLoadPending>>]_vars

====
